---------------------------- MODULE Spec2Model ----------------------------
(***************************************************************************)
(* PDFOCRProcessor (src/src/ocr_processor.py): construction, process_pdf   *)
(* and save_to_json, with the PDF rasterizer (pdf2image), the OCR engine   *)
(* (pytesseract) and the filesystem as the environment.                    *)
(*                                                                         *)
(* A Python str is a sequence of tokens (each token a TLA+ string), so     *)
(* that strip(), join(), Path.suffix / Path.stem and f-strings are         *)
(* computed, not assumed.  A language code is one token.                   *)
(***************************************************************************)
EXTENDS Integers, Sequences, FiniteSets, TLC

(* ------------------------------ bounds -------------------------------- *)
\* longest languages list a caller passes to the constructor
MaxLangs == 2
\* most pages the rasterizer returns for one document
MaxPages == 2

(* ------------------------- config/settings.py ------------------------- *)
DEFAULT_LANGUAGES == <<"eng">>
DEFAULT_OUTPUT_DIR == "output"
PDF_SIZE_LIMIT == 104857600

(* ------------------------- src/exceptions.py --------------------------- *)
\* class -> its base classes (itself included)
Bases(cls) ==
    CASE cls = "UnsupportedLanguageError" ->
            {"UnsupportedLanguageError", "OCRProcessorError", "Exception"}
      [] cls = "PDFProcessingError" ->
            {"PDFProcessingError", "OCRProcessorError", "Exception"}
      [] cls = "OCRProcessorError" -> {"OCRProcessorError", "Exception"}
      [] cls = "FileNotFoundError" -> {"FileNotFoundError", "OSError", "Exception"}
      [] cls = "PermissionError" -> {"PermissionError", "OSError", "Exception"}
      [] OTHER -> {cls, "Exception"}

\* isinstance(e, cls): what an `except cls` clause catches
IsInstance(e, cls) == cls \in Bases(e.cls)

\* raise cls(msg)
Exc(cls, msg) == [cls |-> cls, msg |-> msg]

NoExc == [cls |-> "none", msg |-> <<>>]

(* ----------------------------- str helpers ---------------------------- *)
RECURSIVE Join(_, _)
\* sep.join(parts), parts a list of tokens
Join(sep, parts) ==
    IF parts = <<>> THEN <<>>
    ELSE IF Len(parts) = 1 THEN <<parts[1]>>
    ELSE <<parts[1], sep>> \o Join(sep, Tail(parts))

IsSpace(tok) == tok \in {" ", "\n", "\f"}

RECURSIVE LStrip(_)
LStrip(s) == IF s # <<>> /\ IsSpace(Head(s)) THEN LStrip(Tail(s)) ELSE s

RECURSIVE RStrip(_)
RStrip(s) ==
    IF s # <<>> /\ IsSpace(s[Len(s)]) THEN RStrip(SubSeq(s, 1, Len(s) - 1)) ELSE s

\* str.strip()
Strip(s) == RStrip(LStrip(s))

\* str.lower(), token by token
LowerTok(tok) ==
    CASE tok = "PDF" -> "pdf"
      [] tok = "Pdf" -> "pdf"
      [] tok = "TXT" -> "txt"
      [] OTHER -> tok

Lower(s) == [k \in 1..Len(s) |-> LowerTok(s[k])]

\* positions of the token tok in s
Positions(s, tok) == {k \in 1..Len(s) : s[k] = tok}

Max(S) == CHOOSE x \in S : \A y \in S : y <= x

\* s.rfind(tok), 1-based; 0 when absent
RFind(s, tok) == IF Positions(s, tok) = {} THEN 0 ELSE Max(Positions(s, tok))


(* --------------------- messages (str constants) ----------------------- *)
\* "Языки должны быть списком строк"
MSG_NOT_A_LIST == <<"languages must be a list of str">>
\* "Список языков не может быть пустым"
MSG_EMPTY_LIST == <<"language list cannot be empty">>
\* "Все языки должны быть строками"
MSG_NOT_ALL_STR == <<"all languages must be str">>
\* "Следующие языки не поддерживаются: "
MSG_UNSUPPORTED == "languages not supported: "
\* "Ошибка проверки языков: "
MSG_LANG_CHECK == "language check failed: "
\* "Tesseract не найден по пути: ..."
MSG_TESS_NOT_FOUND == <<"tesseract not found at TESSERACT_WINDOWS_PATH">>
\* "Tesseract не доступен: "
MSG_TESS_UNAVAILABLE == "tesseract unavailable: "
\* "Ошибка инициализации OCR процессора: "
MSG_INIT_FAILED == "OCR processor init failed: "
\* "Файл не найден: "
MSG_NOT_FOUND == "file not found: "
\* "Файл должен быть PDF: "
MSG_NOT_PDF == "file must be PDF: "
\* "Пустой PDF-файл: "
MSG_EMPTY_PDF == "empty PDF file: "
\* "Размер PDF превышает {PDF_SIZE_LIMIT} МБ: "
MSG_TOO_BIG == "PDF size exceeds limit: "
\* "Poppler не установлен или не добавлен в PATH. ..."
MSG_NO_POPPLER == <<"poppler not installed or not in PATH">>
\* "Ошибка конвертации PDF: "
MSG_CONVERSION == "PDF conversion failed: "
\* "Ошибка обработки PDF: "
MSG_PROCESSING == "PDF processing failed: "
\* "Данные должны содержать {required_keys}"
MSG_REQUIRED_KEYS == <<"data must contain pdf_path and languages">>
\* "Ошибка сохранения результатов: "
MSG_SAVE_FAILED == "saving results failed: "

(* ------------------ the constructor's actual parameter ---------------- *)
\* values that are not str (the test passes [1, 2, 3])
NonStr == {"#1"}

IsStr(x) == x \notin NonStr

\* what a caller puts into a languages list
LangElems == {"eng", "rus", " ", "#1"}

\* a language code the engine can never list (pytesseract keeps only the
\* lines matching ^[a-z_]+$): the empty or whitespace-only code
IsBlank(x) == x \in {"", " "}

\* the language codes an installed engine may provide
EngineLangs == {"eng", "rus"}

RECURSIVE SeqsUpTo(_, _)
SeqsUpTo(S, n) ==
    IF n = 0 THEN {<<>>}
    ELSE LET shorter == SeqsUpTo(S, n - 1)
         IN  shorter \cup {Append(s, x) : s \in shorter, x \in S}

\* languages: None (omitted), a str instead of a list, or a list
LanguagesArgs ==
    {[kind |-> "None", val |-> <<>>], [kind |-> "str", val |-> <<"english">>]}
    \cup {[kind |-> "list", val |-> l] : l \in SeqsUpTo(LangElems, MaxLangs)}

(* ------------- the OCR engine as seen by the constructor -------------- *)
\* windows: Path.cwd().drive is non-empty; tesseract_exe: the configured
\* TESSERACT_WINDOWS_PATH exists; version_ok: get_tesseract_version()
\* returns; langs_ok, langs: get_languages() returns langs
EngineEnv(windows, tesseract_exe, version_ok, langs_ok, langs) ==
    [windows |-> windows, tesseract_exe |-> tesseract_exe,
     version_ok |-> version_ok, langs_ok |-> langs_ok, langs |-> langs]

\* Windows without the executable; an engine that does not start; one
\* that cannot list its languages; one that lists some
EngineEnvs ==
    {EngineEnv(TRUE, FALSE, FALSE, FALSE, {}),
     EngineEnv(FALSE, FALSE, FALSE, FALSE, {}),
     EngineEnv(FALSE, FALSE, TRUE, FALSE, {}),
     EngineEnv(TRUE, TRUE, TRUE, TRUE, EngineLangs)}
    \cup {EngineEnv(FALSE, FALSE, TRUE, TRUE, langs) : langs \in SUBSET EngineLangs}

\* try: body  except Exception as e: raise cls(f"{prefix}{e}")
WrapExcept(e, cls, prefix) ==
    IF e # NoExc /\ IsInstance(e, "Exception")
    THEN Exc(cls, <<prefix>> \o e.msg)
    ELSE e

\* _validate_input_languages without the "if not languages" check
validate_input_languages_no_empty_check(languages) ==
    IF languages.kind = "None"
    THEN [exc |-> NoExc, val |-> DEFAULT_LANGUAGES]
    ELSE IF languages.kind # "list"
    THEN [exc |-> Exc("ValueError", MSG_NOT_A_LIST), val |-> <<>>]
    ELSE IF ~(\A k \in 1..Len(languages.val) : IsStr(languages.val[k]))
    THEN [exc |-> Exc("ValueError", MSG_NOT_ALL_STR), val |-> <<>>]
    ELSE [exc |-> NoExc, val |-> languages.val]

\* PDFOCRProcessor._validate_input_languages: the list, or the exception
_validate_input_languages(languages) ==
    IF languages.kind = "None"
    THEN [exc |-> NoExc, val |-> DEFAULT_LANGUAGES]
    ELSE IF languages.kind # "list"
    THEN [exc |-> Exc("ValueError", MSG_NOT_A_LIST), val |-> <<>>]
    ELSE IF languages.val = <<>>
    THEN [exc |-> Exc("ValueError", MSG_EMPTY_LIST), val |-> <<>>]
    ELSE IF ~(\A k \in 1..Len(languages.val) : IsStr(languages.val[k]))
    THEN [exc |-> Exc("ValueError", MSG_NOT_ALL_STR), val |-> <<>>]
    ELSE [exc |-> NoExc, val |-> languages.val]

\* [lang for lang in self.languages if lang not in available_langs]
MissingLangs(langs, available) ==
    LET Missing(lang) == lang \notin available IN SelectSeq(langs, Missing)

\* PDFOCRProcessor._validate_languages: the exception that leaves it
_validate_languages(langs, env) ==
    LET body ==
            IF ~env.langs_ok
            THEN Exc("TesseractNotFoundError", <<"tesseract is not installed">>)
            ELSE IF MissingLangs(langs, env.langs) # <<>>
            THEN Exc("UnsupportedLanguageError",
                     <<MSG_UNSUPPORTED>> \o MissingLangs(langs, env.langs))
            ELSE NoExc
    IN  WrapExcept(body, "OCRProcessorError", MSG_LANG_CHECK)

\* PDFOCRProcessor._init_tesseract: the exception that leaves it
_init_tesseract(langs, env) ==
    IF env.windows /\ ~env.tesseract_exe
    THEN Exc("OCRProcessorError", MSG_TESS_NOT_FOUND)
    ELSE LET body ==
                 IF ~env.version_ok
                 THEN Exc("TesseractNotFoundError", <<"tesseract is not installed">>)
                 ELSE _validate_languages(langs, env)
         IN  WrapExcept(body, "OCRProcessorError", MSG_TESS_UNAVAILABLE)

\* the pytesseract calls _init_tesseract makes, in order
InitEngineCalls(env) ==
    IF env.windows /\ ~env.tesseract_exe THEN <<>>
    ELSE IF ~env.version_ok THEN <<"get_tesseract_version">>
    ELSE <<"get_tesseract_version", "get_languages">>

\* PDFOCRProcessor.__init__: the exception that leaves it (NoExc: an
\* object is constructed)
InitExc(languages, env) ==
    LET vin == _validate_input_languages(languages)
    IN  IF vin.exc # NoExc THEN vin.exc
        ELSE WrapExcept(_init_tesseract(vin.val, env),
                        "OCRProcessorError", MSG_INIT_FAILED)

\* the object __init__ leaves behind
NewProcessor(languages) ==
    LET langs == _validate_input_languages(languages).val
    IN  [constructed |-> TRUE, languages |-> langs,
         tesseract_langs |-> Join("+", langs)]

\* no PDFOCRProcessor object exists
NoProcessor == [constructed |-> FALSE, languages |-> <<>>, tesseract_langs |-> <<>>]

(* ------------------------------ pathlib ------------------------------- *)
\* Path.name: the final component
PathName(path) == SubSeq(path, RFind(path, "/") + 1, Len(path))

\* Path.suffix: from the last dot of the name, unless that dot is the
\* name's first or last character
Suffix(path) ==
    LET name == PathName(path)
        dot == RFind(name, ".")
    IN  IF 1 < dot /\ dot < Len(name) THEN SubSeq(name, dot, Len(name)) ELSE <<>>

\* Path.stem: the name without its suffix
Stem(path) ==
    LET name == PathName(path)
        dot == RFind(name, ".")
    IN  IF 1 < dot /\ dot < Len(name) THEN SubSeq(name, 1, dot - 1) ELSE name

\* the paths a caller hands to process_pdf
InputPaths ==
    { <<"doc", ".", "pdf">>,
      <<"in", "/", "scan", ".", "v2", ".", "PDF">>,
      <<"in", "/", "notes", ".", "txt">>,
      <<"in", "/", ".", "pdf">> }

\* what the filesystem answers for a path: exists(), stat().st_size
FileStats ==
    [exists : BOOLEAN, size : {0, 1, PDF_SIZE_LIMIT, PDF_SIZE_LIMIT + 1}]

NoStat == [exists |-> FALSE, size |-> 0]

(* --------------------------- _validate_pdf_path ------------------------ *)
\* _validate_pdf_path with the extension checked before existence
validate_pdf_path_suffix_first(pdf_path, st) ==
    IF Lower(Suffix(pdf_path)) # <<".", "pdf">>
    THEN Exc("ValueError", <<MSG_NOT_PDF>> \o pdf_path)
    ELSE IF ~st.exists
    THEN Exc("FileNotFoundError", <<MSG_NOT_FOUND>> \o pdf_path)
    ELSE IF st.size = 0
    THEN Exc("ValueError", <<MSG_EMPTY_PDF>> \o pdf_path)
    ELSE IF st.size > PDF_SIZE_LIMIT
    THEN Exc("ValueError", <<MSG_TOO_BIG>> \o pdf_path)
    ELSE NoExc

\* PDFOCRProcessor._validate_pdf_path: the exception it raises, or NoExc
_validate_pdf_path(pdf_path, st) ==
    IF ~st.exists
    THEN Exc("FileNotFoundError", <<MSG_NOT_FOUND>> \o pdf_path)
    ELSE IF Lower(Suffix(pdf_path)) # <<".", "pdf">>
    THEN Exc("ValueError", <<MSG_NOT_PDF>> \o pdf_path)
    ELSE IF st.size = 0
    THEN Exc("ValueError", <<MSG_EMPTY_PDF>> \o pdf_path)
    ELSE IF st.size > PDF_SIZE_LIMIT
    THEN Exc("ValueError", <<MSG_TOO_BIG>> \o pdf_path)
    ELSE NoExc

(* ------------------------------ rasterizer ---------------------------- *)
\* a page image, named by what the OCR engine makes of it
Images == {"blank", "space", "text", "bad"}

\* pdf2image.convert_from_path: the list of page images, or an exception
ConvertOutcomes ==
    {[exc |-> NoExc, images |-> l] : l \in SeqsUpTo(Images, MaxPages)}
    \cup {[exc |-> Exc("PDFInfoNotInstalledError", <<"Unable to get page count. Is poppler installed?">>),
           images |-> <<>>],
          [exc |-> Exc("PDFPageCountError", <<"Unable to get page count.">>),
           images |-> <<>>]}

\* the except clauses of pdf_to_images around convert_from_path
pdf_to_images(out) ==
    IF out.exc = NoExc THEN NoExc
    ELSE IF IsInstance(out.exc, "PDFInfoNotInstalledError")
    THEN Exc("PDFProcessingError", MSG_NO_POPPLER)
    ELSE WrapExcept(out.exc, "PDFProcessingError", MSG_CONVERSION)

(* ------------------------------ OCR engine ---------------------------- *)
\* pytesseract.image_to_string(image, lang): the text, or an exception
image_to_string(image) ==
    CASE image = "blank" -> [exc |-> NoExc, text |-> <<>>]
      [] image = "space" -> [exc |-> NoExc, text |-> <<" ", "\n", "\f">>]
      [] image = "text" ->
            [exc |-> NoExc, text |-> <<" ", "Test", " ", "Text", "\n">>]
      [] OTHER ->
            [exc |-> Exc("TesseractError", <<"Tesseract error">>), text |-> <<>>]

\* extract_text_with_tesseract without the .strip()
extract_text_unstripped(image) ==
    LET r == image_to_string(image)
    IN  IF r.exc # NoExc /\ IsInstance(r.exc, "Exception") THEN <<>>
        ELSE r.text

\* PDFOCRProcessor.extract_text_with_tesseract
extract_text_with_tesseract(image) ==
    LET r == image_to_string(image)
    IN  IF r.exc # NoExc /\ IsInstance(r.exc, "Exception") THEN <<>>
        ELSE Strip(r.text)

(* ----------------------------- process_pdf ---------------------------- *)
\* the dict process_pdf starts from (no page_count key yet)
NewResult(pdf_path, languages) ==
    [keys |-> <<"pdf_path", "pages", "languages", "status">>,
     pdf_path |-> pdf_path, pages |-> <<>>, languages |-> languages,
     status |-> "success", page_count |-> 0]

\* the dict a page contributes
PageResult(i, page_text) ==
    [page_number |-> i, text |-> page_text,
     status |-> IF page_text # <<>> THEN "success" ELSE "empty_or_failed"]

\* AppendPage with enumerate's default start (pages numbered from 0)
AppendPageFromZero(result, i, image) ==
    [result EXCEPT
        !.pages = Append(@, PageResult(i - 1, extract_text_with_tesseract(image)))]

\* result["pages"].append({...}) for the i-th image
AppendPage(result, i, image) ==
    [result EXCEPT
        !.pages = Append(@, PageResult(i, extract_text_with_tesseract(image)))]

\* result["page_count"] = len(result["pages"])
SetPageCount(result) ==
    [result EXCEPT !.keys = Append(@, "page_count"), !.page_count = Len(result.pages)]

\* ImagesExc with the check "if not images: raise PDFProcessingError"
ImagesExcNoEmpty(out) ==
    IF out.exc = NoExc /\ out.images = <<>>
    THEN Exc("PDFProcessingError", <<"PDF has no images or is empty">>)
    ELSE pdf_to_images(out)

\* for i, image in enumerate(images_gen, start=1): the exception that
\* obtaining the images raises into process_pdf's try block; an empty
\* list raises nothing, the loop body just never runs
ImagesExc(out) == pdf_to_images(out)

\* process_pdf's except clause raising the bare marker, without {e}
process_pdf_except_bare(e) ==
    IF e # NoExc THEN Exc("PDFProcessingError", <<MSG_PROCESSING>>) ELSE e

\* except Exception as e: raise PDFProcessingError(f"...: {e}")
process_pdf_except(e) == WrapExcept(e, "PDFProcessingError", MSG_PROCESSING)

\* no dict: nothing was returned
NoResult ==
    [keys |-> <<>>, pdf_path |-> <<>>, pages |-> <<>>, languages |-> <<>>,
     status |-> "", page_count |-> 0]

(* ------------------------------- state -------------------------------- *)
VARIABLES
    proc,           \* the PDFOCRProcessor object the caller holds
    languages_arg,  \* __init__'s languages parameter, latest call
    engine,         \* what the OCR engine answered to that __init__
    pc,             \* where process_pdf stands
    pdf_path,       \* process_pdf's parameter
    fstat,          \* what the filesystem answered to _validate_pdf_path
    result,         \* process_pdf's local dict
    convert_exc,    \* the exception convert_from_path raised (NoExc: none)
    images,         \* the list convert_from_path returned
    i,              \* enumerate(images_gen, start=1): pages consumed
    exc,            \* the exception in flight inside process_pdf's try
    returned,       \* the dict process_pdf returned (NoResult: none)
    raised,         \* the exception the latest call raised to its caller
    trace,          \* the external calls the latest call made, in order
    dirs,           \* the directories that exist under the output area
    files,          \* path -> content of the files written
    save_call,      \* save_to_json's parameters and outcome, latest call
    prev_save,      \* the same for the latest call that returned before it
    lists,          \* the lists of language codes alive, by identity
    self_languages, \* the identity of the list self.languages is bound to
    page_lists,     \* the lists bound to "pages" in returned dicts, by identity
    held            \* the dicts process_pdf returned that the caller holds

procVars == <<proc, languages_arg, engine>>
pdfVars == <<pc, pdf_path, fstat, result, convert_exc, images, i, exc, returned>>
saveVars == <<dirs, files, save_call, prev_save>>
aliasVars == <<lists, self_languages, page_lists, held>>
vars == <<proc, languages_arg, engine, pc, pdf_path, fstat, result, convert_exc, images, i,
          exc, returned, raised, trace, dirs, files, save_call, prev_save,
          lists, self_languages, page_lists, held>>

\* no list object (None, or no processor)
NoList == 0

\* the identity of the class attribute OCRConfig.DEFAULT_LANGUAGES
DefaultList == 1

NoArg == [kind |-> "-", val |-> <<>>]

NoEngine ==
    [windows |-> FALSE, tesseract_exe |-> FALSE, version_ok |-> FALSE,
     langs_ok |-> FALSE, langs |-> {}]

\* process_pdf is not running
AtRest == pc \in {"idle", "complete", "failed"}

(* ----------------------------- save_to_json --------------------------- *)
\* data.keys()
Keys(data) == {data.keys[k] : k \in 1..Len(data.keys)}

\* required_keys.issubset(data.keys())
HasRequiredKeys(data) == {"pdf_path", "languages"} \subseteq Keys(data)

\* the output_dir parameter: None ("None") or a directory
OutputDirArgs == {"None", "out2"}

\* output_dir or self.config.DEFAULT_OUTPUT_DIR
OutputDir(output_dir) ==
    IF output_dir \in {"None", ""} THEN DEFAULT_OUTPUT_DIR ELSE output_dir

\* output_dir / f"result_{pdf_stem}_{lang_suffix}.json"
OutputPath(data, output_dir) ==
    <<OutputDir(output_dir), "/", "result_">> \o Stem(data.pdf_path) \o <<"_">>
        \o Join("_", data.languages) \o <<".json">>

\* json.dump(data, f): the first n of the dict's entries, as written
Dump(data, n) == [k \in {data.keys[j] : j \in 1..n} |-> data[k]]

\* WriteMode with open(output_path, "a"): the old content is kept
AppendMode(old, data, n) == old \o (IF n = 0 THEN <<>> ELSE <<Dump(data, n)>>)

\* open(output_path, "w") and a write that got n entries out: the file's
\* content, a sequence of JSON documents
WriteMode(old, data, n) == IF n = 0 THEN <<>> ELSE <<Dump(data, n)>>

\* what the filesystem does during one save_to_json: mkdir succeeds,
\* open succeeds, and how many entries reach the file before the write
\* fails: none, the first, or all of them (no error)
DiskEnvs(data) ==
    [mkdir_ok : BOOLEAN, open_ok : BOOLEAN, written : {0, 1, Len(data.keys)}]

\* the exception save_to_json raises to its caller, or NoExc
SaveExc(data, output_dir, env, existing) ==
    IF ~HasRequiredKeys(data) THEN Exc("ValueError", MSG_REQUIRED_KEYS)
    ELSE IF OutputDir(output_dir) \notin existing /\ ~env.mkdir_ok
    THEN Exc("PermissionError", <<"[Errno 13] Permission denied: ", OutputDir(output_dir)>>)
    ELSE LET body ==
                 IF ~env.open_ok
                 THEN Exc("PermissionError", <<"[Errno 13] Permission denied: ">>
                                             \o OutputPath(data, output_dir))
                 ELSE IF env.written < Len(data.keys)
                 THEN Exc("OSError", <<"[Errno 28] No space left on device">>)
                 ELSE NoExc
         IN  WrapExcept(body, "OCRProcessorError", MSG_SAVE_FAILED)

\* MkdirDone with the directory created before the keys are checked
MkdirBeforeKeyCheck(data, output_dir, env, existing) ==
    OutputDir(output_dir) \in existing \/ env.mkdir_ok

\* output_dir.mkdir(parents=True, exist_ok=True) is reached and succeeds
MkdirDone(data, output_dir, env, existing) ==
    /\ HasRequiredKeys(data)
    /\ OutputDir(output_dir) \in existing \/ env.mkdir_ok

\* open(output_path, "w") is reached and succeeds
OpenDone(data, output_dir, env, existing) ==
    MkdirDone(data, output_dir, env, existing) /\ env.open_ok

\* the Document Results and other dicts a caller hands to save_to_json:
\* a two-page result, a dict with the required keys only, {} and a dict
\* without pdf_path
SampleData ==
    { SetPageCount(AppendPage(AppendPage(NewResult(<<"doc", ".", "pdf">>, <<"eng">>),
                                         1, "text"), 2, "blank")),
      [NoResult EXCEPT !.keys = <<"pdf_path", "languages">>,
                       !.pdf_path = <<"in", "/", "scan", ".", "v2", ".", "PDF">>,
                       !.languages = <<"eng", "rus">>],
      NoResult,
      [NoResult EXCEPT !.keys = <<"languages", "status">>,
                       !.languages = <<"eng">>, !.status = "success"] }

NoSave ==
    [called |-> FALSE, data |-> NoResult, output_dir |-> "None",
     path |-> <<>>, content |-> <<>>]

(* ------------------------------ actions ------------------------------- *)
Init ==
    /\ proc = NoProcessor
    /\ languages_arg = NoArg
    /\ engine = NoEngine
    /\ pc = "idle"
    /\ pdf_path = <<>>
    /\ fstat = NoStat
    /\ result = NoResult
    /\ convert_exc = NoExc
    /\ images = <<>>
    /\ i = 0
    /\ exc = NoExc
    /\ returned = NoResult
    /\ raised = NoExc
    /\ trace = <<>>
    /\ dirs = {}
    /\ files = [q \in {} |-> <<>>]
    /\ save_call = NoSave
    /\ prev_save = NoSave
    /\ lists = <<DEFAULT_LANGUAGES>>
    /\ self_languages = NoList
    /\ page_lists = <<>>
    /\ held = <<>>

\* processor = PDFOCRProcessor(languages): the caller holds the object the
\* call produced, and none when it raised
Construct ==
    /\ AtRest
    /\ \E languages \in LanguagesArgs, env \in EngineEnvs :
          /\ languages_arg' = languages
          /\ engine' = env
          /\ raised' = InitExc(languages, env)
          /\ proc' = IF InitExc(languages, env) = NoExc
                     THEN NewProcessor(languages) ELSE NoProcessor
          /\ trace' = IF _validate_input_languages(languages).exc = NoExc
                      THEN InitEngineCalls(env) ELSE <<>>
    /\ pc' = "idle"
    /\ pdf_path' = <<>>
    /\ fstat' = NoStat
    /\ result' = NoResult
    /\ convert_exc' = NoExc
    /\ images' = <<>>
    /\ i' = 0
    /\ exc' = NoExc
    /\ returned' = NoResult
    /\ UNCHANGED saveVars
    /\ UNCHANGED aliasVars

\* process_pdf(pdf_path) is called: the result dict is built, the
\* generator is created (none of its code has run yet)
ProcessStart ==
    /\ AtRest
    /\ proc.constructed
    /\ \E path \in InputPaths : pdf_path' = path
    /\ result' = NewResult(pdf_path', proc.languages)
    /\ pc' = "validating"
    /\ fstat' = NoStat
    /\ convert_exc' = NoExc
    /\ images' = <<>>
    /\ i' = 0
    /\ exc' = NoExc
    /\ returned' = NoResult
    /\ raised' = NoExc
    /\ trace' = <<>>
    /\ languages_arg' = NoArg
    /\ engine' = NoEngine
    /\ UNCHANGED proc
    /\ UNCHANGED saveVars
    /\ UNCHANGED aliasVars

\* Validate with the validator's exception swallowed: the generator goes
\* on to the conversion whatever the validator found
ValidateUnchecked ==
    /\ pc = "validating"
    /\ \E st \in FileStats : fstat' = st
    /\ exc' = NoExc
    /\ pc' = "rasterizing"
    /\ trace' = Append(trace, "_validate_pdf_path")
    /\ UNCHANGED <<pdf_path, result, convert_exc, images, i, returned, raised>>
    /\ UNCHANGED procVars
    /\ UNCHANGED saveVars
    /\ UNCHANGED aliasVars

\* the generator's first step: self._validate_pdf_path(pdf_path)
Validate ==
    /\ pc = "validating"
    /\ \E st \in FileStats :
          /\ fstat' = st
          /\ exc' = _validate_pdf_path(pdf_path, st)
          /\ pc' = IF _validate_pdf_path(pdf_path, st) = NoExc
                   THEN "rasterizing" ELSE "except"
    /\ trace' = Append(trace, "_validate_pdf_path")
    /\ UNCHANGED <<pdf_path, result, convert_exc, images, i, returned, raised>>
    /\ UNCHANGED procVars
    /\ UNCHANGED saveVars
    /\ UNCHANGED aliasVars

\* pdf2image.convert_from_path(pdf_path, grayscale=grayscale)
Rasterize ==
    /\ pc = "rasterizing"
    /\ \E out \in ConvertOutcomes :
          /\ convert_exc' = out.exc
          /\ images' = out.images
          /\ exc' = ImagesExc(out)
          /\ pc' = IF ImagesExc(out) = NoExc THEN "recognizing" ELSE "except"
    /\ trace' = Append(trace, "convert_from_path")
    /\ UNCHANGED <<pdf_path, fstat, result, i, returned, raised>>
    /\ UNCHANGED procVars
    /\ UNCHANGED saveVars
    /\ UNCHANGED aliasVars

\* one turn of the for loop: the next image is recognized and appended
Recognize ==
    /\ pc = "recognizing"
    /\ i < Len(images)
    /\ i' = i + 1
    /\ result' = AppendPage(result, i', images[i'])
    /\ trace' = Append(trace, "image_to_string")
    /\ UNCHANGED <<pc, pdf_path, fstat, convert_exc, images, exc, returned, raised>>
    /\ UNCHANGED procVars
    /\ UNCHANGED saveVars
    /\ UNCHANGED aliasVars

\* the generator is exhausted: page_count is set and the dict returned
Return ==
    /\ pc = "recognizing"
    /\ i = Len(images)
    /\ result' = SetPageCount(result)
    /\ returned' = result'
    /\ pc' = "complete"
    /\ UNCHANGED <<pdf_path, fstat, convert_exc, images, i, exc, raised, trace>>
    /\ UNCHANGED procVars
    /\ UNCHANGED saveVars
    /\ UNCHANGED aliasVars

\* except Exception as e: raise PDFProcessingError(f"...: {e}")
Except ==
    /\ pc = "except"
    /\ raised' = process_pdf_except(exc)
    /\ pc' = "failed"
    /\ UNCHANGED <<pdf_path, fstat, result, convert_exc, images, i, exc, returned, trace>>
    /\ UNCHANGED procVars
    /\ UNCHANGED saveVars
    /\ UNCHANGED aliasVars

\* the content of the file at path (nothing when there is none)
Content(fs, path) == IF path \in DOMAIN fs THEN fs[path] ELSE <<>>

\* save_to_json(data, output_dir)
SaveToJson ==
    /\ AtRest
    /\ proc.constructed
    /\ \E data \in SampleData, output_dir \in OutputDirArgs :
        \E env \in DiskEnvs(data) :
          LET e == SaveExc(data, output_dir, env, dirs)
              path == OutputPath(data, output_dir)
              written ==
                  [q \in DOMAIN files \cup {path} |->
                      IF q = path
                      THEN WriteMode(Content(files, path), data, env.written)
                      ELSE files[q]]
          IN  /\ raised' = e
              /\ dirs' = IF MkdirDone(data, output_dir, env, dirs)
                         THEN dirs \cup {OutputDir(output_dir)} ELSE dirs
              /\ files' = IF OpenDone(data, output_dir, env, dirs)
                          THEN written ELSE files
              /\ save_call' =
                    [called |-> TRUE, data |-> data, output_dir |-> output_dir,
                     path |-> IF e = NoExc THEN path ELSE <<>>,
                     content |-> IF e = NoExc THEN written[path] ELSE <<>>]
              /\ prev_save' = IF save_call.path # <<>> THEN save_call ELSE prev_save
              /\ trace' =
                    IF ~HasRequiredKeys(data) THEN <<>>
                    ELSE IF ~MkdirDone(data, output_dir, env, dirs) THEN <<"mkdir">>
                    ELSE IF ~env.open_ok THEN <<"mkdir", "open">>
                    ELSE <<"mkdir", "open", "json.dump">>
    /\ UNCHANGED pdfVars
    /\ UNCHANGED procVars
    /\ UNCHANGED aliasVars

Next ==
    \/ Construct
    \/ ProcessStart
    \/ Validate
    \/ Rasterize
    \/ Recognize
    \/ Return
    \/ Except

Spec == Init /\ [][Next]_vars

\* one step of a running process_pdf call
ProcessStep == Validate \/ Rasterize \/ Recognize \/ Return \/ Except

\* the interpreter runs the call on: every external call returns, and a
\* single thread has nothing else to do
SpecFair == Spec /\ WF_vars(ProcessStep)

\* save_to_json on its own: a processor exists, the output area is empty
InitSave ==
    /\ proc = NewProcessor([kind |-> "None", val |-> <<>>])
    /\ languages_arg = NoArg
    /\ engine = NoEngine
    /\ pc = "idle"
    /\ pdf_path = <<>>
    /\ fstat = NoStat
    /\ result = NoResult
    /\ convert_exc = NoExc
    /\ images = <<>>
    /\ i = 0
    /\ exc = NoExc
    /\ returned = NoResult
    /\ raised = NoExc
    /\ trace = <<>>
    /\ dirs = {}
    /\ files = [q \in {} |-> <<>>]
    /\ save_call = NoSave
    /\ prev_save = NoSave
    /\ lists = <<DEFAULT_LANGUAGES>>
    /\ self_languages = NoList
    /\ page_lists = <<>>
    /\ held = <<>>

NextSave == SaveToJson

SpecSave == InitSave /\ [][NextSave]_vars

(* ------------- list objects: which dict is bound to which ------------- *)
\* the dicts a caller keeps, the lists of language codes alive at once,
\* and the files in the output area
MaxHeld == 2
MaxLists == 2
MaxFiles == 1

\* the constructor arguments, paths and documents of the calls below
SharedArgs ==
    {a \in LanguagesArgs : a.kind = "list" => a.val \in {<<>>, <<"rus">>}}

SharedPaths == {<<"doc", ".", "pdf">>, <<"in", "/", "notes", ".", "txt">>}

SharedOutcomes ==
    {o \in ConvertOutcomes : \A k \in 1..Len(o.images) : o.images[k] = "text"}

\* the whole for loop of process_pdf over images, from the k-th on
RECURSIVE Recognized(_, _, _)
Recognized(res, imgs, k) ==
    IF k > Len(imgs) THEN res
    ELSE Recognized(AppendPage(res, k, imgs[k]), imgs, k + 1)

\* what reading a held dict gives: its list fields looked up by identity
View(doc, langs, pages) ==
    [doc EXCEPT !.languages = langs[doc.languages], !.pages = pages[doc.pages]]

\* processor = PDFOCRProcessor(languages): _validate_input_languages
\* returns the class attribute itself for None and the caller's own list
\* otherwise, and __init__ binds self.languages to that object
ConstructShared ==
    /\ \E languages \in SharedArgs, env \in EngineEnvs :
          LET vin == _validate_input_languages(languages)
              langs == IF languages.kind = "None" THEN lists[DefaultList]
                       ELSE vin.val
              e == IF vin.exc # NoExc THEN vin.exc
                   ELSE WrapExcept(_init_tesseract(langs, env),
                                   "OCRProcessorError", MSG_INIT_FAILED)
          IN  /\ languages.kind = "list" => Len(lists) < MaxLists
              /\ lists' = IF e = NoExc /\ languages.kind = "list"
                          THEN Append(lists, languages.val) ELSE lists
              /\ self_languages' =
                    IF e # NoExc THEN NoList
                    ELSE IF languages.kind = "None" THEN DefaultList
                    ELSE Len(lists) + 1
    /\ UNCHANGED <<page_lists, held>>
    /\ UNCHANGED <<procVars, pdfVars, saveVars, raised, trace>>

\* result = processor.process_pdf(pdf_path), the whole call: the dict's
\* "pages" is a new list, its "languages" is self.languages itself
ProcessShared ==
    /\ self_languages # NoList
    /\ Len(held) < MaxHeld
    /\ \E path \in SharedPaths, st \in FileStats, out \in SharedOutcomes :
          LET e == IF _validate_pdf_path(path, st) # NoExc
                   THEN _validate_pdf_path(path, st) ELSE ImagesExc(out)
              doc == SetPageCount(Recognized(NewResult(path, self_languages),
                                             out.images, 1))
          IN  IF e # NoExc THEN UNCHANGED <<page_lists, held>>
              ELSE /\ page_lists' = Append(page_lists, doc.pages)
                   /\ held' = Append(held, [doc EXCEPT !.pages = Len(page_lists) + 1])
    /\ UNCHANGED <<lists, self_languages>>
    /\ UNCHANGED <<procVars, pdfVars, saveVars, raised, trace>>

\* processor.save_to_json(held[k], output_dir) with a disk that works:
\* json.dump reads the dict and the lists it is bound to
SaveShared(k) ==
    /\ self_languages # NoList
    /\ \E output_dir \in OutputDirArgs :
          LET data == View(held[k], lists, page_lists)
              path == OutputPath(data, output_dir)
          IN  /\ path \in DOMAIN files \/ Cardinality(DOMAIN files) < MaxFiles
              /\ dirs' = dirs \cup {OutputDir(output_dir)}
              /\ files' = [q \in DOMAIN files \cup {path} |->
                              IF q = path
                              THEN WriteMode(Content(files, path), data, Len(data.keys))
                              ELSE files[q]]
    /\ UNCHANGED aliasVars
    /\ UNCHANGED <<procVars, pdfVars, save_call, prev_save, raised, trace>>

\* the caller runs held[k]["languages"].append(code)
AppendLanguage(k) ==
    /\ Len(lists[held[k].languages]) < MaxLangs
    /\ \E code \in EngineLangs :
          lists' = [lists EXCEPT ![held[k].languages] = Append(@, code)]
    /\ UNCHANGED <<self_languages, page_lists, held>>
    /\ UNCHANGED <<procVars, pdfVars, saveVars, raised, trace>>

\* the caller runs del held[k]["pages"][-1]
DropLastPage(k) ==
    /\ page_lists[held[k].pages] # <<>>
    /\ page_lists' = [page_lists EXCEPT ![held[k].pages] = SubSeq(@, 1, Len(@) - 1)]
    /\ UNCHANGED <<lists, self_languages, held>>
    /\ UNCHANGED <<procVars, pdfVars, saveVars, raised, trace>>

\* the caller runs held[k]["status"] = "reviewed"
SetStatus(k) ==
    /\ held[k].status # "reviewed"
    /\ held' = [held EXCEPT ![k].status = "reviewed"]
    /\ UNCHANGED <<lists, self_languages, page_lists>>
    /\ UNCHANGED <<procVars, pdfVars, saveVars, raised, trace>>

NextShared ==
    \/ ConstructShared
    \/ ProcessShared
    \/ \E k \in 1..Len(held) : SaveShared(k)
    \/ \E k \in 1..Len(held) : AppendLanguage(k)
    \/ \E k \in 1..Len(held) : DropLastPage(k)
    \/ \E k \in 1..Len(held) : SetStatus(k)

\* whole calls and the caller's own statements in between, from the
\* state in which only the class attribute exists
SpecShared == Init /\ [][NextShared]_vars

(* ------------------------------ properties ---------------------------- *)
\* the tokens of a str
Tokens(str) == {str[k] : k \in 1..Len(str)}

\* the rasterizer was called and returned a list of images
Rasterized == "convert_from_path" \in Tokens(trace) /\ convert_exc = NoExc

\* C1: when validation passes and the rasterizer returns n >= 1 pages,
\* process_pdf returns a dict with page_count = len(pages) = n and
\* pages[k].page_number = k (1-based), and such a call never fails.
C1_PageCountAndOrder ==
    /\ (pc = "complete" /\ Len(images) >= 1) =>
          /\ returned # NoResult
          /\ "page_count" \in Keys(returned)
          /\ returned.page_count = Len(returned.pages)
          /\ Len(returned.pages) = Len(images)
          /\ \A k \in 1..Len(returned.pages) : returned.pages[k].page_number = k
    /\ (Rasterized /\ Len(images) >= 1) => pc \in {"recognizing", "complete"}

\* C1 witness: a two-page document has been returned
C1_Witness ==
    pc = "complete" /\ Len(images) = 2 /\ returned.page_count = 2

\* the engine's output for the image holds a token that is not whitespace
HasText(image) ==
    /\ image_to_string(image).exc = NoExc
    /\ \E t \in Tokens(image_to_string(image).text) : ~IsSpace(t)

\* C2: a page's recognition failure never escalates: every page recognized
\* so far has a str for text (empty when the engine raised), its status is
\* success exactly when the engine's text is non-empty after trimming, no
\* exception is in flight once recognition has begun, and the call ends
\* with every page processed and status success, whatever the pages were.
C2_PageFailureNeverEscalates ==
    /\ \A k \in 1..Len(result.pages) :
          /\ result.pages[k].status = "success" <=> HasText(images[k])
          /\ result.pages[k].status = "empty_or_failed" <=> ~HasText(images[k])
          /\ result.pages[k].status = "success" <=> result.pages[k].text # <<>>
          /\ image_to_string(images[k]).exc # NoExc => result.pages[k].text = <<>>
    /\ Rasterized =>
          /\ pc \in {"recognizing", "complete"}
          /\ raised = NoExc
    /\ pc = "complete" =>
          /\ Len(returned.pages) = Len(images)
          /\ returned.status = "success"

\* C2 witness: a document returned with status success although every one
\* of its pages is empty_or_failed, one of them by an engine error
C2_Witness ==
    /\ pc = "complete"
    /\ Len(images) = 2
    /\ \E k \in 1..2 : images[k] = "bad"
    /\ \A k \in 1..2 : returned.pages[k].status = "empty_or_failed"
    /\ returned.status = "success"

\* the str ends with the str tail
EndsWith(str, tail) ==
    /\ Len(tail) <= Len(str)
    /\ SubSeq(str, Len(str) - Len(tail) + 1, Len(str)) = tail

\* C3: a process_pdf call that fails raises one PDFProcessingError whose
\* message is the processing-failed marker followed by the message of the
\* exception that caused it (not found, not a PDF, empty, too big, poppler
\* missing, conversion failed), nothing is returned, and a call whose
\* validation or rasterization failed never returns a dict.
C3_FailureIsOneWrappedError ==
    /\ pc = "failed" =>
          /\ raised.cls = "PDFProcessingError"
          /\ Head(raised.msg) = MSG_PROCESSING
          /\ exc # NoExc
          /\ Tail(raised.msg) = exc.msg
          /\ returned = NoResult
          /\ \/ /\ trace = <<"_validate_pdf_path">>
                /\ Head(exc.msg) \in {MSG_NOT_FOUND, MSG_NOT_PDF, MSG_EMPTY_PDF, MSG_TOO_BIG}
                /\ EndsWith(raised.msg, pdf_path)
             \/ /\ trace = <<"_validate_pdf_path", "convert_from_path">>
                /\ convert_exc # NoExc
                /\ \/ exc.msg = MSG_NO_POPPLER
                   \/ exc.msg = <<MSG_CONVERSION>> \o convert_exc.msg
    /\ (pc = "failed" /\ ~fstat.exists) => MSG_NOT_FOUND \in Tokens(raised.msg)
    /\ (pc = "failed" /\ fstat.exists /\ fstat.size = 0
          /\ pdf_path = <<"doc", ".", "pdf">>) => MSG_EMPTY_PDF \in Tokens(raised.msg)
    /\ pc # "failed" => raised = NoExc \/ pc = "idle"
    /\ pc = "complete" => exc = NoExc /\ raised = NoExc
    /\ pc = "except" => returned = NoResult

\* C3 witness: a corrupt PDF passed validation and failed in the rasterizer
C3_Witness ==
    /\ pc = "failed"
    /\ trace = <<"_validate_pdf_path", "convert_from_path">>
    /\ convert_exc.cls = "PDFPageCountError"
    /\ raised.msg[1] = MSG_PROCESSING
    /\ raised.msg[2] = MSG_CONVERSION

\* the paths whose extension is .pdf in any letter case (the name ".pdf"
\* is a dot-file without an extension)
PdfNamed == { <<"doc", ".", "pdf">>, <<"in", "/", "scan", ".", "v2", ".", "PDF">> }

\* _validate_pdf_path has just run
JustValidated == trace = <<"_validate_pdf_path">> /\ pc \in {"rasterizing", "except"}

\* what the validator must report for the path and the filesystem's answer
C4_Expected ==
    IF ~fstat.exists THEN Exc("FileNotFoundError", <<MSG_NOT_FOUND>> \o pdf_path)
    ELSE IF pdf_path \notin PdfNamed THEN Exc("ValueError", <<MSG_NOT_PDF>> \o pdf_path)
    ELSE IF fstat.size = 0 THEN Exc("ValueError", <<MSG_EMPTY_PDF>> \o pdf_path)
    ELSE IF fstat.size >= PDF_SIZE_LIMIT + 1
    THEN Exc("ValueError", <<MSG_TOO_BIG>> \o pdf_path)
    ELSE NoExc

\* C4: _validate_pdf_path checks existence, then the extension, then
\* size > 0, then size <= PDF_SIZE_LIMIT and reports the first check that
\* fails; it accepts exactly when all four pass (a file of exactly the
\* limit is accepted); and the step changes nothing but the call's own
\* position: the processor, the result dict and the output area are as
\* they were.
C4_ValidatorOrder ==
    /\ [](JustValidated =>
            /\ exc = C4_Expected
            /\ pc = "rasterizing" <=>
                  /\ fstat.exists
                  /\ pdf_path \in PdfNamed
                  /\ fstat.size > 0
                  /\ fstat.size <= PDF_SIZE_LIMIT)
    /\ [][pc = "validating" =>
            UNCHANGED <<proc, pdf_path, result, convert_exc, images, i, returned, dirs, files>>]_vars

\* C4 witness: a .PDF file of exactly the limit has been accepted
C4_Witness ==
    /\ JustValidated
    /\ pc = "rasterizing"
    /\ fstat.size = PDF_SIZE_LIMIT
    /\ pdf_path = <<"in", "/", "scan", ".", "v2", ".", "PDF">>

\* the latest call was the constructor
JustConstructed == languages_arg # NoArg

\* the engine starts and lists its languages
EngineReachable ==
    /\ ~(engine.windows /\ ~engine.tesseract_exe)
    /\ engine.version_ok
    /\ engine.langs_ok

\* the constructor was given a well-formed list naming a language the
\* reachable engine does not provide
AsksUnsupported ==
    /\ JustConstructed
    /\ languages_arg.kind = "list"
    /\ languages_arg.val # <<>>
    /\ \A k \in 1..Len(languages_arg.val) : IsStr(languages_arg.val[k])
    /\ EngineReachable
    /\ \E k \in 1..Len(languages_arg.val) : languages_arg.val[k] \notin engine.langs

\* C5: constructing a processor with a well-formed language list that
\* names a language the engine does not provide raises an
\* UnsupportedLanguageError, which an except clause for that class tells
\* from the other construction failures, and leaves no processor.
C5_UnsupportedLanguageKind ==
    AsksUnsupported =>
        /\ IsInstance(raised, "UnsupportedLanguageError")
        /\ proc = NoProcessor

\* C5, what the code does: the error is an OCRProcessorError proper, as
\* for an engine that does not start, and only its message names the
\* unsupported languages
C5_RaisesBaseClass ==
    AsksUnsupported =>
        /\ raised.cls = "OCRProcessorError"
        /\ MSG_UNSUPPORTED \in Tokens(raised.msg)
        /\ proc = NoProcessor

\* C6: a save_to_json call with the required keys that meets an I/O error,
\* in mkdir or in open or in the write, raises an OCRProcessorError and
\* nothing else.
C6_EveryIOErrorIsWrapped ==
    (save_call.called /\ HasRequiredKeys(save_call.data) /\ raised # NoExc) =>
        raised.cls = "OCRProcessorError"

\* C6, what the code does: the errors of open and of the write are
\* wrapped, the error of mkdir escapes as the OSError it is
C6_OnlyOpenAndWriteWrapped ==
    (save_call.called /\ HasRequiredKeys(save_call.data) /\ raised # NoExc) =>
        \/ raised.cls = "OCRProcessorError" /\ Head(raised.msg) = MSG_SAVE_FAILED
        \/ trace = <<"mkdir">> /\ IsInstance(raised, "OSError")

\* C7: save_to_json with a dict lacking pdf_path or languages raises
\* ValueError and leaves the output area as it was: no directory is
\* created, no file is created or overwritten.
C7_MissingKeysTouchNothing ==
    [][(save_call'.called /\ ~HasRequiredKeys(save_call'.data)) =>
          /\ raised'.cls = "ValueError"
          /\ save_call'.path = <<>>
          /\ trace' = <<>>
          /\ dirs' = dirs
          /\ files' = files]_vars

\* C7 witness: a dict without pdf_path was refused while files exist
C7_Witness ==
    /\ save_call.called
    /\ ~HasRequiredKeys(save_call.data)
    /\ raised.cls = "ValueError"
    /\ DOMAIN files # {}

\* both the latest save_to_json call and an earlier one returned, and they
\* were given the same dict and the same output_dir
SavedTwice ==
    /\ save_call.path # <<>>
    /\ prev_save.path # <<>>
    /\ save_call.data = prev_save.data
    /\ save_call.output_dir = prev_save.output_dir

\* C8: save_to_json called again with the same dict and output_dir returns
\* the same path, result_<stem>_<languages joined by _>.json under the
\* output directory, and leaves the file with the content the first call
\* left (one JSON document: overwritten, not appended to).
C8_SaveIdempotent ==
    /\ SavedTwice =>
          /\ save_call.path = prev_save.path
          /\ Content(files, save_call.path) = prev_save.content
          /\ Len(Content(files, save_call.path)) = 1
    /\ save_call.path # <<>> =>
          /\ save_call.path \in DOMAIN files
          /\ save_call.data.pdf_path = <<"doc", ".", "pdf">> =>
                save_call.path \in
                    { <<"output", "/", "result_", "doc", "_", "eng", ".json">>,
                      <<"out2", "/", "result_", "doc", "_", "eng", ".json">> }
          /\ save_call.data.pdf_path = <<"in", "/", "scan", ".", "v2", ".", "PDF">> =>
                save_call.path \in
                    { <<"output", "/", "result_", "scan", ".", "v2", "_", "eng", "_", "rus", ".json">>,
                      <<"out2", "/", "result_", "scan", ".", "v2", "_", "eng", "_", "rus", ".json">> }
          /\ save_call.path[1] = (IF save_call.output_dir = "None" THEN "output"
                                  ELSE save_call.output_dir)

\* C8 witness: the two-page result was saved twice to the default directory
C8_Witness ==
    /\ SavedTwice
    /\ Len(save_call.data.pages) = 2
    /\ save_call.output_dir = "None"

\* C9: an empty list is refused with the cannot-be-empty ValueError, a
\* non-list and a list with a non-str element with a ValueError, each
\* before any call to the OCR engine; an omitted argument gives ["eng"];
\* and a constructed processor's languages are a non-empty list of
\* non-blank str.
C9_LanguageValidation ==
    /\ (JustConstructed /\ languages_arg.kind = "list" /\ languages_arg.val = <<>>) =>
          /\ raised = Exc("ValueError", MSG_EMPTY_LIST)
          /\ trace = <<>>
          /\ proc = NoProcessor
    /\ (JustConstructed /\ languages_arg.kind = "str") =>
          /\ raised = Exc("ValueError", MSG_NOT_A_LIST)
          /\ trace = <<>>
          /\ proc = NoProcessor
    /\ (JustConstructed /\ languages_arg.kind = "list"
          /\ \E k \in 1..Len(languages_arg.val) : ~IsStr(languages_arg.val[k])) =>
          /\ raised = Exc("ValueError", MSG_NOT_ALL_STR)
          /\ trace = <<>>
          /\ proc = NoProcessor
    /\ (JustConstructed /\ languages_arg.kind = "None" /\ raised = NoExc) =>
          proc.languages = <<"eng">>
    /\ proc.constructed =>
          /\ proc.languages # <<>>
          /\ \A k \in 1..Len(proc.languages) :
                IsStr(proc.languages[k]) /\ ~IsBlank(proc.languages[k])
    /\ (JustConstructed /\ raised = NoExc) => proc.constructed

\* C9 witness: the constructor has refused an empty list
C9_Witness ==
    /\ JustConstructed
    /\ languages_arg.kind = "list"
    /\ languages_arg.val = <<>>
    /\ raised.msg = MSG_EMPTY_LIST

\* C10: when validation passes and the rasterizer returns no page,
\* process_pdf returns a dict with pages empty, page_count 0 and status
\* success, and raises nothing.
C10_ZeroPagesIsSuccess ==
    (Rasterized /\ images = <<>> /\ trace = <<"_validate_pdf_path", "convert_from_path">>) =>
        /\ pc \in {"recognizing", "complete"}
        /\ raised = NoExc
        /\ pc = "complete" =>
              /\ returned.pages = <<>>
              /\ "page_count" \in Keys(returned)
              /\ returned.page_count = 0
              /\ returned.status = "success"

\* C10 witness: a zero-page document has been returned
C10_Witness ==
    /\ pc = "complete"
    /\ trace = <<"_validate_pdf_path", "convert_from_path">>
    /\ returned.pages = <<>>
    /\ returned.page_count = 0

\* n image_to_string calls
RecognitionCalls(n) == [k \in 1..n |-> "image_to_string"]

\* process_pdf is running
Running == pc \in {"validating", "rasterizing", "recognizing", "except"}

\* the external calls made so far, stage by stage
C11_StageTrace ==
    /\ pc = "validating" => trace = <<>>
    /\ pc = "rasterizing" => trace = <<"_validate_pdf_path">>
    /\ pc \in {"recognizing", "complete"} =>
          /\ trace = <<"_validate_pdf_path", "convert_from_path">> \o RecognitionCalls(i)
          /\ i <= Len(images)
          /\ Len(result.pages) = i
          /\ \A k \in 1..i : result.pages[k].page_number = k
          /\ C4_Expected = NoExc
          /\ convert_exc = NoExc
    /\ pc = "complete" =>
          /\ i = Len(images)
          /\ returned = result
          /\ returned # NoResult
          /\ raised = NoExc
    /\ pc \in {"except", "failed"} =>
          /\ \/ trace = <<"_validate_pdf_path">> /\ C4_Expected # NoExc
             \/ /\ trace = <<"_validate_pdf_path", "convert_from_path">>
                /\ C4_Expected = NoExc
                /\ convert_exc # NoExc
          /\ result.pages = <<>>
          /\ returned = NoResult
    /\ pc = "failed" => raised.cls = "PDFProcessingError"
    /\ (pc # "idle" /\ trace # <<>> /\ C4_Expected # NoExc) =>
          /\ pc \in {"except", "failed"}
          /\ trace = <<"_validate_pdf_path">>

\* the stages a step may lead to; a finished call is left only by a new
\* call, and a failed one keeps what it has
C11_StageStep ==
    /\ pc = "idle" => pc' \in {"idle", "validating"}
    /\ pc = "validating" => pc' \in {"rasterizing", "except"}
    /\ pc = "rasterizing" => pc' \in {"recognizing", "except"}
    /\ pc = "recognizing" =>
          \/ pc' = "recognizing" /\ i' = i + 1 /\ i < Len(images)
          \/ pc' = "complete" /\ i' = i /\ i = Len(images)
    /\ pc = "except" => pc' = "failed"
    /\ pc \in {"complete", "failed"} =>
          \/ pc' = "validating" /\ trace' = <<>> /\ returned' = NoResult
          \/ pc' = "idle" /\ returned' = NoResult
          \/ pc' = pc /\ UNCHANGED <<result, returned, raised, trace, i>>
    /\ Running => UNCHANGED <<proc, pdf_path>>

\* C11: a process_pdf call goes Idle -> Validating -> Rasterizing ->
\* Recognizing (one image_to_string call per page, in page order) ->
\* Complete; the validator runs once and before the rasterizer and the
\* engine; a validation failure fails the call with neither of them
\* called; a failed call recognizes no page and returns no result; and
\* a running call ends, complete with a result or failed with a
\* PDFProcessingError.
C11_StageOrder ==
    /\ []C11_StageTrace
    /\ [][C11_StageStep]_vars
    /\ (Running ~> pc \in {"complete", "failed"})

\* C11 witness: a two-page call has gone through every stage
C11_Witness ==
    /\ pc = "complete"
    /\ trace = <<"_validate_pdf_path", "convert_from_path",
                 "image_to_string", "image_to_string">>
    /\ Len(returned.pages) = 2

\* the caller changes a field of the k-th dict it holds
Changes(k) == AppendLanguage(k) \/ DropLastPage(k) \/ SetStatus(k)

\* the list self.languages is bound to, as the processor reads it
ConfiguredLanguages(ref, objs) == IF ref = NoList THEN <<>> ELSE objs[ref]

\* C12: a dict returned by process_pdf shares no mutable component with
\* the processor or with the dict of another call: changing a field of
\* one returned dict (its languages included) changes no other returned
\* dict, nor the processor's configured languages, nor the default
\* languages later processors get; and no later process_pdf or
\* save_to_json call changes a dict already returned
C12_ResultsFreshAndUnshared ==
    [][/\ \A k \in 1..Len(held) :
            Changes(k) =>
                /\ \A j \in 1..Len(held) \ {k} :
                      View(held'[j], lists', page_lists') = View(held[j], lists, page_lists)
                /\ ConfiguredLanguages(self_languages', lists')
                      = ConfiguredLanguages(self_languages, lists)
                /\ lists'[DefaultList] = lists[DefaultList]
       /\ (ProcessShared \/ \E k \in 1..Len(held) : SaveShared(k)) =>
             \A j \in 1..Len(held) : View(held'[j], lists', page_lists') = View(held[j], lists, page_lists)
      ]_vars

\* what does hold of C12: no later call changes a dict already returned,
\* and changing pages or status of one dict changes nothing else
C12_CallsAndOwnFieldsAreSafe ==
    [][/\ \A k \in 1..Len(held) :
            (DropLastPage(k) \/ SetStatus(k)) =>
                /\ \A j \in 1..Len(held) \ {k} :
                      View(held'[j], lists', page_lists') = View(held[j], lists, page_lists)
                /\ ConfiguredLanguages(self_languages', lists')
                      = ConfiguredLanguages(self_languages, lists)
                /\ lists'[DefaultList] = lists[DefaultList]
       /\ (ProcessShared \/ ConstructShared \/ \E k \in 1..Len(held) : SaveShared(k)) =>
             \A j \in 1..Len(held) : View(held'[j], lists', page_lists') = View(held[j], lists, page_lists)
      ]_vars

\* two dicts from one default processor, the first one's languages changed
C12_SharedListChanged ==
    /\ Len(held) = 2
    /\ held[1].languages = DefaultList
    /\ held[2].languages = DefaultList
    /\ self_languages = DefaultList
    /\ lists[DefaultList] = <<"eng", "rus">>

====
